---- MODULE Spec2Model ----
(***************************************************************************)
(* Sensor simulation server (app.js): the registry of sensors, the        *)
(* deferred completions of create / restart / terminate, the two periodic *)
(* schedulers and the per-request pipeline (request delay, random-error   *)
(* gate, route handler).                                                   *)
(*                                                                         *)
(* Node runs every callback to completion, so each action below is one    *)
(* callback: a request's arrival, the firing of its delay timer (which    *)
(* runs the gate and the handler synchronously), the firing of an action  *)
(* timer, or one tick of a scheduler.                                      *)
(*                                                                         *)
(* Math.random() is modelled in hundredths: a roll r stands for r / 100,  *)
(* and a rate of 0.05 is 5.                                                *)
(***************************************************************************)
EXTENDS Integers, Sequences, FiniteSets, Bags, TLC

VARIABLES
    isUnreliable,       \* options.unreliable
    shouldFailSensors,  \* options.failSensors
    nextId,             \* let nextId
    sensors,            \* const sensors = []
    timers,             \* bag of pending actionAfterDelay callbacks
    conns               \* per connection: its latest request and what became of it

vars == <<isUnreliable, shouldFailSensors, nextId, sensors, timers, conns>>

----------------------------------------------------------------------------
(* Bounds of the model *)

MaxSensors == 2     \* creates are accepted while nextId <= MaxSensors
MaxConns == 1       \* requests in flight at the same time

(* Sampled values of Math.random() in randomErrorsMiddleware: the largest *)
(* roll of each error category and the smallest roll that passes          *)
Rolls == {4, 9, 14, 19, 20}

(* Sampled values of Math.random() in triggerIntermittentFailures: the    *)
(* smallest roll and either side of FAILURE_RATE                          *)
FailureRolls == {0, 19, 20}

(* Sampled values of Math.random() in getMeasurement *)
MeasurementRolls == {42}

----------------------------------------------------------------------------
(* Program constants *)

ACTION_RESTART == "restart"
ACTION_TERMINATE == "terminate"

STATUS_INITIALIZING == "INITIALIZING"
STATUS_ACTIVE == "ACTIVE"
STATUS_FAILED == "FAILED"
STATUS_RESTARTING == "RESTARTING"
STATUS_TERMINATING == "TERMINATING"

(* A plausible slip: the hang rate does not depend on the option *)
ERROR_HANG_RATE_Always == IF isUnreliable THEN 5 ELSE 5

ERROR_HANG_RATE == IF isUnreliable THEN 5 ELSE 0
ERROR_502_RATE == IF isUnreliable THEN 5 ELSE 0
ERROR_CLOSE_RATE == IF isUnreliable THEN 5 ELSE 0
ERROR_TEXT_ERROR == IF isUnreliable THEN 5 ELSE 0

FAILURE_RATE == IF shouldFailSensors THEN 20 ELSE 0

ERROR_TEXT_CONTENT == "This site is inaccessible. Please try again."

----------------------------------------------------------------------------
(* JavaScript values *)

(* null, and the numbers that are not plain counters: NaN or a value *)
null == [type |-> "null"]
NaN == [type |-> "number", nan |-> TRUE]
Num(n) == [type |-> "number", value |-> n]

(* A field the JSON body does not have *)
undefined == "undefined"

(* Decimal strings a route parameter can hold, by value *)
Decimals == <<"1", "2", "3", "4", "5", "6">>

(* Number(str) for a route parameter *)
Number(str) ==
    IF str = "0" THEN Num(0)
    ELSE IF \E i \in DOMAIN Decimals : Decimals[i] = str
         THEN Num(CHOOSE i \in DOMAIN Decimals : Decimals[i] = str)
         ELSE NaN

(* JSON number tokens of a request body that are integers, by value *)
IntegerTokens == {<<"2", 2>>, <<"7", 7>>}

(* Number.isNaN(v) for a value of the parsed body: JSON has no NaN *)
NumberIsNaN(v) == v = "NaN"

(* Number.isInteger(v) for a value of the parsed body *)
NumberIsInteger(v) == \E t \in IntegerTokens : t[1] = v

(* The integer a JSON integer token parses to *)
IntegerValue(v) == (CHOOSE t \in IntegerTokens : t[1] = v)[2]

----------------------------------------------------------------------------
(* Requests *)

ROUTE_INDEX == "GET /"
ROUTE_SENSOR_IDS == "GET /sensor-ids"
ROUTE_CREATE == "POST /sensors"
ROUTE_GET == "GET /sensors/:id"
ROUTE_CHANGE == "POST /sensors/:id/:action"
ROUTE_DEBUG == "GET /debug"

(* The routes registered with requestDelayMiddleware and                  *)
(* randomErrorsMiddleware in front of their handler                       *)
SensorRoutes == {ROUTE_SENSOR_IDS, ROUTE_CREATE, ROUTE_GET, ROUTE_CHANGE}

Routes == SensorRoutes \cup {ROUTE_INDEX, ROUTE_DEBUG}

none == "-"

(* A request body that is not JSON, as body-parser reports it in err.body *)
UnparseableBody == "{frequency"

(* req.params.id: not a number, zero, every id the bounds allow, one more *)
IdParams == {"abc", "0"} \cup {Decimals[i] : i \in 1..(MaxSensors + 1)}

(* req.params.action *)
ActionParams == {ACTION_RESTART, ACTION_TERMINATE, "reboot"}

(* req.body.frequency: absent, not an integer, integers *)
FrequencyInputs == {undefined, "2.5", "2", "7"}

Request(route, id, action, frequency) ==
    [route |-> route, id |-> id, action |-> action, frequency |-> frequency]

(* The response object of a request: res.status sets statusCode, res.json *)
(* and res.send append to sent, res.connection.destroy sets destroyed     *)
NewResponse == [statusCode |-> 200, sent |-> <<>>, destroyed |-> FALSE]

ResStatus(res, code) == [res EXCEPT !.statusCode = code]

ResJson(res, body) ==
    [res EXCEPT !.sent = Append(@, [code |-> res.statusCode, type |-> "json", body |-> body])]

ResSend(res, text) ==
    [res EXCEPT !.sent = Append(@, [code |-> res.statusCode, type |-> "text", body |-> [text |-> text]])]

(* res.send(JSON.stringify(value, null, 2)): the text of a value *)
ResSendStringified(res, value) ==
    [res EXCEPT !.sent = Append(@, [code |-> res.statusCode, type |-> "text", body |-> [stringified |-> value]])]

ResDestroy(res) == [res EXCEPT !.destroyed = TRUE]

ErrorBody(msg) == [error |-> msg]

(* { error: `invalid json: received '${err.body}'` }: the text and the body in it *)
InvalidJsonBody(body) == [error |-> "invalid json: received", body |-> body]

(* { error: `sensor status is ${status}` }: the text and the status in it *)
StatusErrorBody(status) == [error |-> "sensor status is", status |-> status]

----------------------------------------------------------------------------
(* The registry and the deferred callbacks *)

Sensor(id, frequency, status, measurement) ==
    [id |-> id, frequency |-> frequency, status |-> status, measurement |-> measurement]

(* The callbacks handed to actionAfterDelay; each closes over one sensor  *)
(* object, named here by its id                                           *)
CB_SET_ACTIVE == "setActive"
CB_SPLICE == "splice"

Callback(kind, id) == [callback |-> kind, sensor |-> id]

World(s, t, n) == [sensors |-> s, timers |-> t, nextId |-> n]

(* actionAfterDelay(callback): one more pending timer *)
actionAfterDelay(t, callback) == t (+) SetToBag({callback})

(* sensors.find(s => s.id === sensorId): index of the first match, 0 if none *)
find(arr, sensorId) ==
    IF \E i \in 1..Len(arr) : arr[i].id = sensorId
    THEN CHOOSE i \in 1..Len(arr) :
            /\ arr[i].id = sensorId
            /\ \A j \in 1..(i - 1) : arr[j].id # sensorId
    ELSE 0

(* A plausible slip: the position counted from one *)
indexOf_FromOne(arr, id) == find(arr, id)

(* sensors.indexOf(sensor), zero-based, -1 when the object is not there *)
indexOf(arr, id) == find(arr, id) - 1

(* A plausible slip: splice(start) without the delete count, which        *)
(* removes everything from start on                                       *)
splice_WithoutCount(arr, start) ==
    LET len == Len(arr)
        from == IF start < 0
                THEN (IF len + start < 0 THEN 0 ELSE len + start)
                ELSE (IF start > len THEN len ELSE start)
    IN  SubSeq(arr, 1, from)

(* arr.splice(start, 1): a negative start counts from the end *)
splice(arr, start) ==
    LET len == Len(arr)
        from == IF start < 0
                THEN (IF len + start < 0 THEN 0 ELSE len + start)
                ELSE (IF start > len THEN len ELSE start)
    IN  IF from < len
        THEN SubSeq(arr, 1, from) \o SubSeq(arr, from + 2, len)
        ELSE arr

(* sensor.status = status, on the object with this id if it is stored *)
setStatus(arr, id, status) ==
    [i \in 1..Len(arr) |->
        IF arr[i].id = id THEN [arr[i] EXCEPT !.status = status] ELSE arr[i]]

----------------------------------------------------------------------------
(* Middleware and route handlers: each maps the world and the response    *)
(* object to the world and the response object it leaves                  *)

Outcome(w, res) == [world |-> w, res |-> res]

(* The category the random-error gate picks for a roll *)
GATE_HANG == "hang"
GATE_502 == "502"
GATE_CLOSE == "close"
GATE_TEXT == "text"
GATE_PASS == "pass"

(* A plausible slip: the running value compared with <= 0 *)
randomErrorsGate_AtMostZero(errorRoll) ==
    LET r1 == errorRoll - ERROR_HANG_RATE
        r2 == r1 - ERROR_502_RATE
        r3 == r2 - ERROR_CLOSE_RATE
        r4 == r3 - ERROR_TEXT_ERROR
    IN  IF r1 <= 0 THEN GATE_HANG
        ELSE IF r2 <= 0 THEN GATE_502
        ELSE IF r3 <= 0 THEN GATE_CLOSE
        ELSE IF r4 <= 0 THEN GATE_TEXT
        ELSE GATE_PASS

randomErrorsGate(errorRoll) ==
    LET r1 == errorRoll - ERROR_HANG_RATE
        r2 == r1 - ERROR_502_RATE
        r3 == r2 - ERROR_CLOSE_RATE
        r4 == r3 - ERROR_TEXT_ERROR
    IN  IF r1 < 0 THEN GATE_HANG
        ELSE IF r2 < 0 THEN GATE_502
        ELSE IF r3 < 0 THEN GATE_CLOSE
        ELSE IF r4 < 0 THEN GATE_TEXT
        ELSE GATE_PASS

(* !sensorId || Number.isNaN(sensorId) *)
isInvalidId(sensorId) == sensorId = Num(0) \/ sensorId = NaN

(* A plausible slip: only a sensor being terminated is refused *)
acceptsAction_AllButTerminating(status) == status # STATUS_TERMINATING

(* A plausible slip: a sensor that is restarting can be acted on again *)
acceptsAction_AlsoRestarting(status) ==
    status \in {STATUS_ACTIVE, STATUS_FAILED, STATUS_RESTARTING}

(* [STATUS_ACTIVE, STATUS_FAILED].includes(status) *)
acceptsAction(status) == status \in {STATUS_ACTIVE, STATUS_FAILED}

(* A plausible slip: the id taken from the length of the registry *)
allocateId_FromLength(w) == Len(w.sensors) + 1

(* The id of the next sensor to create: nextId++ *)
allocateId(w) == w.nextId

(* A plausible slip: the new sensor starts out ACTIVE *)
newSensor_StartsActive(id, frequency) == Sensor(id, frequency, STATUS_ACTIVE, null)

(* The object literal of createSensorRoute *)
newSensor(id, frequency) == Sensor(id, frequency, STATUS_INITIALIZING, null)

getSensorIdsRoute(w, req, res) ==
    Outcome(w, ResJson(res, [ids |-> [i \in 1..Len(w.sensors) |-> w.sensors[i].id]]))

(* A plausible slip: the id taken from the counter before the frequency   *)
(* is validated                                                           *)
createSensorRoute_IdBeforeValidation(w, req, res) ==
    LET frequency == req.frequency IN
    IF NumberIsNaN(frequency)
    THEN Outcome(World(w.sensors, w.timers, w.nextId + 1),
                 ResJson(ResStatus(res, 400), ErrorBody("missing frequency")))
    ELSE IF ~NumberIsInteger(frequency)
    THEN Outcome(World(w.sensors, w.timers, w.nextId + 1),
                 ResJson(ResStatus(res, 400), ErrorBody("invalid frequency")))
    ELSE
        LET sensor == newSensor(allocateId(w), IntegerValue(frequency))
        IN  Outcome(World(Append(w.sensors, sensor),
                          actionAfterDelay(w.timers, Callback(CB_SET_ACTIVE, sensor.id)),
                          w.nextId + 1),
                    ResJson(res, sensor))

(* A plausible slip: the new sensor put in front (unshift for push) *)
createSensorRoute_Unshift(w, req, res) ==
    LET frequency == req.frequency IN
    IF NumberIsNaN(frequency)
    THEN Outcome(w, ResJson(ResStatus(res, 400), ErrorBody("missing frequency")))
    ELSE IF ~NumberIsInteger(frequency)
    THEN Outcome(w, ResJson(ResStatus(res, 400), ErrorBody("invalid frequency")))
    ELSE
        LET sensor == newSensor(allocateId(w), IntegerValue(frequency))
        IN  Outcome(World(<<sensor>> \o w.sensors,
                          actionAfterDelay(w.timers, Callback(CB_SET_ACTIVE, sensor.id)),
                          w.nextId + 1),
                    ResJson(res, sensor))

createSensorRoute(w, req, res) ==
    LET frequency == req.frequency IN
    IF NumberIsNaN(frequency)
    THEN Outcome(w, ResJson(ResStatus(res, 400), ErrorBody("missing frequency")))
    ELSE IF ~NumberIsInteger(frequency)
    THEN Outcome(w, ResJson(ResStatus(res, 400), ErrorBody("invalid frequency")))
    ELSE
        LET sensor == newSensor(allocateId(w), IntegerValue(frequency))
        IN  Outcome(World(Append(w.sensors, sensor),
                          actionAfterDelay(w.timers, Callback(CB_SET_ACTIVE, sensor.id)),
                          w.nextId + 1),
                    ResJson(res, sensor))

getSensorRoute(w, req, res) ==
    LET sensorId == Number(req.id) IN
    IF isInvalidId(sensorId)
    THEN Outcome(w, ResJson(ResStatus(res, 400), ErrorBody("invalid id")))
    ELSE
        LET k == find(w.sensors, sensorId.value) IN
        IF k = 0
        THEN Outcome(w, ResJson(ResStatus(res, 404), ErrorBody("not found")))
        ELSE Outcome(w, ResJson(res, w.sensors[k]))

(* A plausible slip: whatever is not a restart is carried out as a        *)
(* terminate before the action name is checked                            *)
applyAction_CheckedAfterwards(w, id, action, res) ==
    IF action = ACTION_RESTART
    THEN Outcome(World(setStatus(w.sensors, id, STATUS_RESTARTING),
                       actionAfterDelay(w.timers, Callback(CB_SET_ACTIVE, id)),
                       w.nextId),
                 ResJson(res, [ok |-> TRUE]))
    ELSE Outcome(World(setStatus(w.sensors, id, STATUS_TERMINATING),
                       actionAfterDelay(w.timers, Callback(CB_SPLICE, id)),
                       w.nextId),
                 IF action = ACTION_TERMINATE
                 THEN ResJson(res, [ok |-> TRUE])
                 ELSE ResJson(ResStatus(res, 400), ErrorBody("invalid action")))

(* A plausible slip: the restart marks the sensor but arms no timer *)
applyAction_RestartNotScheduled(w, id, action, res) ==
    IF action = ACTION_RESTART
    THEN Outcome(World(setStatus(w.sensors, id, STATUS_RESTARTING), w.timers, w.nextId),
                 ResJson(res, [ok |-> TRUE]))
    ELSE IF action = ACTION_TERMINATE
    THEN Outcome(World(setStatus(w.sensors, id, STATUS_TERMINATING),
                       actionAfterDelay(w.timers, Callback(CB_SPLICE, id)),
                       w.nextId),
                 ResJson(res, [ok |-> TRUE]))
    ELSE Outcome(w, ResJson(ResStatus(res, 400), ErrorBody("invalid action")))

(* Lines 188-201 of changeSensorRoute: the action on the sensor found *)
applyAction(w, id, action, res) ==
    IF action = ACTION_RESTART
    THEN Outcome(World(setStatus(w.sensors, id, STATUS_RESTARTING),
                       actionAfterDelay(w.timers, Callback(CB_SET_ACTIVE, id)),
                       w.nextId),
                 ResJson(res, [ok |-> TRUE]))
    ELSE IF action = ACTION_TERMINATE
    THEN Outcome(World(setStatus(w.sensors, id, STATUS_TERMINATING),
                       actionAfterDelay(w.timers, Callback(CB_SPLICE, id)),
                       w.nextId),
                 ResJson(res, [ok |-> TRUE]))
    ELSE Outcome(w, ResJson(ResStatus(res, 400), ErrorBody("invalid action")))

changeSensorRoute(w, req, res) ==
    LET sensorId == Number(req.id) IN
    IF isInvalidId(sensorId)
    THEN Outcome(w, ResJson(ResStatus(res, 400), ErrorBody("invalid id")))
    ELSE
        LET k == find(w.sensors, sensorId.value) IN
        IF k = 0
        THEN Outcome(w, ResJson(ResStatus(res, 404), ErrorBody("not found")))
        ELSE IF ~acceptsAction(w.sensors[k].status)
        THEN Outcome(w, ResJson(ResStatus(res, 400), StatusErrorBody(w.sensors[k].status)))
        ELSE applyAction(w, w.sensors[k].id, req.action, res)

(* The handler the router runs once the gate has called next() *)
routeHandler(w, req, res) ==
    CASE req.route = ROUTE_SENSOR_IDS -> getSensorIdsRoute(w, req, res)
      [] req.route = ROUTE_CREATE -> createSensorRoute(w, req, res)
      [] req.route = ROUTE_GET -> getSensorRoute(w, req, res)
      [] req.route = ROUTE_CHANGE -> changeSensorRoute(w, req, res)

(* A plausible slip: the return of the hang branch left out, so that the  *)
(* request falls through to next()                                        *)
randomErrorsMiddleware_HangFallsThrough(w, req, res, errorRoll) ==
    LET gate == randomErrorsGate(errorRoll) IN
    CASE gate = GATE_HANG -> routeHandler(w, req, res)
      [] gate = GATE_502 -> Outcome(w, ResStatus(res, 502))
      [] gate = GATE_CLOSE -> Outcome(w, ResDestroy(res))
      [] gate = GATE_TEXT -> Outcome(w, ResSend(ResStatus(res, 500), ERROR_TEXT_CONTENT))
      [] gate = GATE_PASS -> routeHandler(w, req, res)

(* randomErrorsMiddleware, with the handler it calls through next() *)
randomErrorsMiddleware(w, req, res, errorRoll) ==
    LET gate == randomErrorsGate(errorRoll) IN
    CASE gate = GATE_HANG -> Outcome(w, res)
      [] gate = GATE_502 -> Outcome(w, ResStatus(res, 502))
      [] gate = GATE_CLOSE -> Outcome(w, ResDestroy(res))
      [] gate = GATE_TEXT -> Outcome(w, ResSend(ResStatus(res, 500), ERROR_TEXT_CONTENT))
      [] gate = GATE_PASS -> routeHandler(w, req, res)

----------------------------------------------------------------------------
(* State *)

Conns == 1..MaxConns

(* What a connection has seen of its latest request *)
PHASE_IDLE == "idle"          \* no request yet
PHASE_WAITING == "waiting"    \* the request waits in requestDelayMiddleware's timer
PHASE_HANDLED == "handled"    \* the request's callback chain has run

NoRequest == Request(none, none, none, none)

Idle == [phase |-> PHASE_IDLE, req |-> NoRequest, gate |-> none, res |-> NewResponse]

(* The request's route, parameters and body are not looked at before the  *)
(* delay has elapsed                                                      *)
Waiting == [phase |-> PHASE_WAITING, req |-> NoRequest, gate |-> none, res |-> NewResponse]

Handled(req, gate, res) == [phase |-> PHASE_HANDLED, req |-> req, gate |-> gate, res |-> res]

Init ==
    /\ isUnreliable \in BOOLEAN
    /\ shouldFailSensors \in BOOLEAN
    /\ nextId = 1
    /\ sensors = <<>>
    /\ timers = EmptyBag
    /\ conns = [c \in Conns |-> Idle]

----------------------------------------------------------------------------
(* Actions *)

(* A request to a delayed route arrives on connection c, which has none   *)
(* in flight: requestDelayMiddleware arms the timer that will call next() *)
requestDelayMiddleware(c) ==
    /\ conns[c].phase # PHASE_WAITING
    /\ conns' = [conns EXCEPT ![c] = Waiting]
    /\ UNCHANGED <<isUnreliable, shouldFailSensors, nextId, sensors, timers>>

(* GET / has no middleware: it is answered when it arrives *)
indexRoute(c) ==
    /\ conns[c].phase # PHASE_WAITING
    /\ conns' = [conns EXCEPT ![c] =
                    Handled(Request(ROUTE_INDEX, none, none, none), none,
                            ResSend(NewResponse, "Greetings from space!"))]
    /\ UNCHANGED <<isUnreliable, shouldFailSensors, nextId, sensors, timers>>

(* A request of any route arrives with a body that body-parser cannot     *)
(* parse: the error handler of lines 32-40 answers it and no route runs   *)
invalidJson(c, route) ==
    /\ conns[c].phase # PHASE_WAITING
    /\ conns' = [conns EXCEPT ![c] =
                    Handled(Request(route, none, none, UnparseableBody), none,
                            ResJson(ResStatus(NewResponse, 400), InvalidJsonBody(UnparseableBody)))]
    /\ UNCHANGED <<isUnreliable, shouldFailSensors, nextId, sensors, timers>>

(* GET /debug has no middleware either: it is answered when it arrives    *)
(* with JSON.stringify(sensors), sent as text                             *)
debugRoute(c) ==
    /\ conns[c].phase # PHASE_WAITING
    /\ conns' = [conns EXCEPT ![c] =
                    Handled(Request(ROUTE_DEBUG, none, none, none), none,
                            ResSendStringified(NewResponse, sensors))]
    /\ UNCHANGED <<isUnreliable, shouldFailSensors, nextId, sensors, timers>>

(* A plausible slip: the route registered without requestDelayMiddleware, *)
(* so that the gate and the handler run when the request arrives          *)
Deliver_WithoutDelay(c, req, errorRoll) ==
    /\ \E out \in {randomErrorsMiddleware(World(sensors, timers, nextId), req, NewResponse, errorRoll)} :
           /\ out.world.nextId <= MaxSensors + 1
           /\ sensors' = out.world.sensors
           /\ timers' = out.world.timers
           /\ nextId' = out.world.nextId
           /\ conns' = [conns EXCEPT ![c] = Handled(req, randomErrorsGate(errorRoll), out.res)]
    /\ UNCHANGED <<isUnreliable, shouldFailSensors>>

(* The delay timer of the request on connection c fires: next() runs the  *)
(* random-error gate and, through it, the route handler                   *)
Deliver(c, req, errorRoll) ==
    /\ conns[c].phase = PHASE_WAITING
    /\ \E out \in {randomErrorsMiddleware(World(sensors, timers, nextId), req, NewResponse, errorRoll)} :
           /\ out.world.nextId <= MaxSensors + 1
           /\ sensors' = out.world.sensors
           /\ timers' = out.world.timers
           /\ nextId' = out.world.nextId
           /\ conns' = [conns EXCEPT ![c] = Handled(req, randomErrorsGate(errorRoll), out.res)]
    /\ UNCHANGED <<isUnreliable, shouldFailSensors>>

DeliverSensorIds ==
    \E c \in Conns, errorRoll \in Rolls :
        Deliver(c, Request(ROUTE_SENSOR_IDS, none, none, none), errorRoll)

DeliverCreate ==
    \E c \in Conns, errorRoll \in Rolls, f \in FrequencyInputs :
        Deliver(c, Request(ROUTE_CREATE, none, none, f), errorRoll)

DeliverGet ==
    \E c \in Conns, errorRoll \in Rolls, i \in IdParams :
        Deliver(c, Request(ROUTE_GET, i, none, none), errorRoll)

DeliverChange ==
    \E c \in Conns, errorRoll \in Rolls, i \in IdParams, a \in ActionParams :
        Deliver(c, Request(ROUTE_CHANGE, i, a, none), errorRoll)

(* An action timer fires: () => sensor.status = STATUS_ACTIVE *)
SetActiveFires(id) ==
    /\ BagIn(Callback(CB_SET_ACTIVE, id), timers)
    /\ timers' = timers (-) SetToBag({Callback(CB_SET_ACTIVE, id)})
    /\ sensors' = setStatus(sensors, id, STATUS_ACTIVE)
    /\ UNCHANGED <<isUnreliable, shouldFailSensors, nextId, conns>>

(* An action timer fires: () => sensors.splice(sensors.indexOf(sensor), 1) *)
SpliceFires(id) ==
    /\ BagIn(Callback(CB_SPLICE, id), timers)
    /\ timers' = timers (-) SetToBag({Callback(CB_SPLICE, id)})
    /\ sensors' = splice(sensors, indexOf(sensors, id))
    /\ UNCHANGED <<isUnreliable, shouldFailSensors, nextId, conns>>

(* A plausible slip: the roll compared with <= *)
triggerIntermittentFailures_AtMost ==
    /\ \E rolls \in [1..Len(sensors) -> FailureRolls] :
        sensors' = [i \in 1..Len(sensors) |->
                        IF sensors[i].status = STATUS_ACTIVE /\ rolls[i] <= FAILURE_RATE
                        THEN [sensors[i] EXCEPT !.status = STATUS_FAILED]
                        ELSE sensors[i]]
    /\ UNCHANGED <<isUnreliable, shouldFailSensors, nextId, timers, conns>>

(* A plausible slip: the status of the sensor is not looked at *)
triggerIntermittentFailures_AnyStatus ==
    /\ \E rolls \in [1..Len(sensors) -> FailureRolls] :
        sensors' = [i \in 1..Len(sensors) |->
                        IF rolls[i] < FAILURE_RATE
                        THEN [sensors[i] EXCEPT !.status = STATUS_FAILED]
                        ELSE sensors[i]]
    /\ UNCHANGED <<isUnreliable, shouldFailSensors, nextId, timers, conns>>

(* One tick of setInterval(triggerIntermittentFailures, FAILURE_INTERVAL); *)
(* rolls[i] is the Math.random() drawn for sensors[i]                      *)
triggerIntermittentFailures ==
    /\ \E rolls \in [1..Len(sensors) -> FailureRolls] :
        sensors' = [i \in 1..Len(sensors) |->
                        IF sensors[i].status = STATUS_ACTIVE /\ rolls[i] < FAILURE_RATE
                        THEN [sensors[i] EXCEPT !.status = STATUS_FAILED]
                        ELSE sensors[i]]
    /\ UNCHANGED <<isUnreliable, shouldFailSensors, nextId, timers, conns>>

(* Math.random() * 100, for a roll in hundredths *)
getMeasurement(roll) == Num(roll)

(* A plausible slip: the status of the sensor is not looked at *)
triggerMeasurements_EverySensor ==
    /\ \E rolls \in [1..Len(sensors) -> MeasurementRolls] :
        sensors' = [i \in 1..Len(sensors) |->
                        [sensors[i] EXCEPT !.measurement = getMeasurement(rolls[i])]]
    /\ UNCHANGED <<isUnreliable, shouldFailSensors, nextId, timers, conns>>

(* One tick of setInterval(triggerMeasurements, MEASUREMENT_INTERVAL) *)
triggerMeasurements ==
    /\ \E rolls \in [1..Len(sensors) -> MeasurementRolls] :
        sensors' = [i \in 1..Len(sensors) |->
                        IF sensors[i].status = STATUS_ACTIVE
                        THEN [sensors[i] EXCEPT !.measurement = getMeasurement(rolls[i])]
                        ELSE sensors[i]]
    /\ UNCHANGED <<isUnreliable, shouldFailSensors, nextId, timers, conns>>

SensorIds == 1..MaxSensors

Next ==
    \/ \E c \in Conns : requestDelayMiddleware(c)
    \/ \E c \in Conns : indexRoute(c)
    \/ \E c \in Conns : debugRoute(c)
    \/ \E c \in Conns, route \in Routes : invalidJson(c, route)
    \/ DeliverSensorIds
    \/ DeliverCreate
    \/ DeliverGet
    \/ DeliverChange
    \/ \E id \in SensorIds : SetActiveFires(id)
    \/ \E id \in SensorIds : SpliceFires(id)
    \/ triggerIntermittentFailures
    \/ triggerMeasurements

Spec == Init /\ [][Next]_vars

(* The requests the delayed routes take *)
DelayedRequests ==
    {Request(ROUTE_SENSOR_IDS, none, none, none)}
    \cup {Request(ROUTE_CREATE, none, none, f) : f \in FrequencyInputs}
    \cup {Request(ROUTE_GET, i, none, none) : i \in IdParams}
    \cup {Request(ROUTE_CHANGE, i, a, none) : i \in IdParams, a \in ActionParams}

(* The delay timer of the request on connection c fires *)
RequestDelayElapses(c) ==
    \E errorRoll \in Rolls, req \in DelayedRequests : Deliver(c, req, errorRoll)

(* Every deferred callback fires once its delay has elapsed: the event    *)
(* loop runs each timer that actionAfterDelay has armed                   *)
FairSpec ==
    /\ Spec
    /\ \A id \in SensorIds : WF_vars(SetActiveFires(id))
    /\ \A id \in SensorIds : WF_vars(SpliceFires(id))

(* Every request-delay timer fires: the event loop runs each timer that   *)
(* requestDelayMiddleware has armed                                       *)
FairRequestSpec ==
    /\ Spec
    /\ \A c \in Conns : WF_vars(RequestDelayElapses(c))

----------------------------------------------------------------------------
(* Requests racing on the registry: one connection more, each with a      *)
(* create or an action request in flight, delivered in any order between  *)
(* the deferred callbacks and the scheduler ticks                         *)

RaceConns == 1..(MaxConns + 1)

RaceRequests ==
    {Request(ROUTE_CREATE, none, none, "2")}
    \cup {Request(ROUTE_CHANGE, Decimals[i], a, none) :
             i \in SensorIds, a \in {ACTION_RESTART, ACTION_TERMINATE}}

RaceInit ==
    /\ isUnreliable \in BOOLEAN
    /\ shouldFailSensors \in BOOLEAN
    /\ nextId = 1
    /\ sensors = <<>>
    /\ timers = EmptyBag
    /\ conns = [c \in RaceConns |-> Idle]

RaceDeliver ==
    \E c \in RaceConns, req \in RaceRequests, errorRoll \in Rolls : Deliver(c, req, errorRoll)

RaceNext ==
    \/ \E c \in RaceConns : requestDelayMiddleware(c)
    \/ RaceDeliver
    \/ \E id \in SensorIds : SetActiveFires(id)
    \/ \E id \in SensorIds : SpliceFires(id)
    \/ triggerIntermittentFailures
    \/ triggerMeasurements

RaceSpec == RaceInit /\ [][RaceNext]_vars

----------------------------------------------------------------------------
(* The removal of line 196 on its own: the callback applied to any        *)
(* registry the program can hold, for any sensor object, stored or not,   *)
(* and applied again after it has run                                     *)

Statuses ==
    {STATUS_INITIALIZING, STATUS_ACTIVE, STATUS_FAILED, STATUS_RESTARTING, STATUS_TERMINATING}

(* The ids of S in ascending order, as push leaves them *)
Ascending(S) ==
    CHOOSE seq \in [1..Cardinality(S) -> S] :
        \A i, j \in 1..Cardinality(S) : i < j => seq[i] < seq[j]

(* The registries over the ids the bounds allow *)
Registries ==
    UNION {{[i \in 1..Cardinality(S) |-> Sensor(Ascending(S)[i], 2, status[Ascending(S)[i]], null)]
                : status \in [S -> Statuses]}
           : S \in SUBSET SensorIds}

(* Two applications of the removal for every sensor object *)
RemovalsToApply ==
    [cb \in {Callback(CB_SPLICE, id) : id \in SensorIds} |-> 2]

RemovalInit ==
    /\ isUnreliable \in BOOLEAN
    /\ shouldFailSensors \in BOOLEAN
    /\ nextId = MaxSensors + 1
    /\ sensors \in Registries
    /\ timers = RemovalsToApply
    /\ conns = [c \in Conns |-> Idle]

RemovalNext == \E id \in SensorIds : SpliceFires(id)

RemovalSpec == RemovalInit /\ [][RemovalNext]_vars

----------------------------------------------------------------------------
(* Vocabulary of the properties *)

Stored(id) == \E i \in 1..Len(sensors) : sensors[i].id = id

StoredIds == {sensors[i].id : i \in 1..Len(sensors)}

HasStatus(id, status) ==
    \E i \in 1..Len(sensors) : sensors[i].id = id /\ sensors[i].status = status

(* This step delivers the request on c to the gate and the handler *)
Delivered(c) == conns[c].phase = PHASE_WAITING /\ conns'[c].phase = PHASE_HANDLED

JsonResponse(code, body) == [code |-> code, type |-> "json", body |-> body]

(* The status of the stored sensor with this id *)
StatusOf(id) == sensors[CHOOSE i \in 1..Len(sensors) : sensors[i].id = id].status

(* This step runs the handler of this route for the request on c *)
HandlerRuns(c, route) ==
    Delivered(c) /\ conns'[c].gate = GATE_PASS /\ conns'[c].req.route = route

(* The latest request on c reached the handler of this route *)
LastHandledBy(c, route) ==
    conns[c].phase = PHASE_HANDLED /\ conns[c].gate = GATE_PASS /\ conns[c].req.route = route

(* This step is a scheduler tick that changed a sensor: nothing but the   *)
(* fields of stored sensors differs                                       *)
TickStep == sensors' # sensors /\ UNCHANGED <<nextId, timers, conns>>

(* The response object carries exactly this one response *)
Answered(res, code, body) == res.sent = <<JsonResponse(code, body)>> /\ ~res.destroyed

(* This step runs the deferred callback of this kind for this sensor *)
CallbackFires(kind, id) ==
    /\ BagIn(Callback(kind, id), timers)
    /\ timers' = timers (-) SetToBag({Callback(kind, id)})
    /\ UNCHANGED <<nextId, conns>>

(* The number of deferred callbacks pending for this sensor *)
Pending(id) ==
    CopiesIn(Callback(CB_SET_ACTIVE, id), timers) + CopiesIn(Callback(CB_SPLICE, id), timers)

----------------------------------------------------------------------------
(* C1: ids are handed out in strictly increasing order and never twice,   *)
(* removed sensors included: the stored sensors have distinct ids below   *)
(* nextId, in increasing order, nextId never decreases, and a sensor that *)
(* enters the registry carries an id no earlier sensor was given (it is   *)
(* nextId, and nextId moves past it in the same step).                    *)
C1_IdsStrictlyIncreasing ==
    /\ [](/\ \A i \in 1..Len(sensors) : sensors[i].id < nextId
          /\ \A i, j \in 1..Len(sensors) : i < j => sensors[i].id < sensors[j].id)
    /\ [][/\ nextId' >= nextId
          /\ \A i \in 1..Len(sensors') :
                sensors'[i].id \notin StoredIds
                => sensors'[i].id = nextId /\ nextId' = nextId + 1
         ]_vars

(* Sensor 1 was removed and sensor 2, created after it, is stored *)
C1_Witness ==
    /\ nextId = 3
    /\ Len(sensors) = 1
    /\ sensors[1].id = 2

----------------------------------------------------------------------------
(* C2: a restart or terminate of a stored sensor is acknowledged only if  *)
(* the sensor is ACTIVE or FAILED when the handler runs; when it is       *)
(* INITIALIZING, RESTARTING or TERMINATING the one response is a 400      *)
(* whose error names that status.                                         *)
C2_ActionOnlyWhenActiveOrFailed ==
    [][\A c \in Conns, id \in StoredIds :
          /\ HandlerRuns(c, ROUTE_CHANGE)
          /\ conns'[c].req.action \in {ACTION_RESTART, ACTION_TERMINATE}
          /\ Number(conns'[c].req.id) = Num(id)
          => /\ Answered(conns'[c].res, 200, [ok |-> TRUE])
                => StatusOf(id) \in {STATUS_ACTIVE, STATUS_FAILED}
             /\ StatusOf(id) \in {STATUS_INITIALIZING, STATUS_RESTARTING, STATUS_TERMINATING}
                => Answered(conns'[c].res, 400, StatusErrorBody(StatusOf(id)))
      ]_vars

(* A terminate of a sensor that is restarting was refused, naming RESTARTING *)
C2_Witness ==
    \E c \in Conns :
    /\ LastHandledBy(c, ROUTE_CHANGE)
    /\ conns[c].req.action = ACTION_TERMINATE
    /\ Answered(conns[c].res, 400, StatusErrorBody(STATUS_RESTARTING))

----------------------------------------------------------------------------
(* C3: a sensor that is TERMINATING (its terminate was acknowledged) is   *)
(* eventually removed from the registry; an id that was handed out and is *)
(* not stored is not stored in the next state either; and a get-by-id for *)
(* such an id that reaches its handler is answered 404 "not found".       *)
C3_TerminatedSensorStaysRemoved ==
    /\ \A id \in SensorIds : HasStatus(id, STATUS_TERMINATING) ~> ~Stored(id)
    /\ [][\A c \in Conns, id \in SensorIds :
             id < nextId /\ ~Stored(id)
             => /\ ~Stored(id)'
                /\ HandlerRuns(c, ROUTE_GET) /\ Number(conns'[c].req.id) = Num(id)
                   => Answered(conns'[c].res, 404, ErrorBody("not found"))
         ]_vars

(* Sensor 1 was removed and a get for it has been answered 404 *)
C3_Witness ==
    \E c \in Conns :
    /\ nextId > 1
    /\ ~Stored(1)
    /\ LastHandledBy(c, ROUTE_GET)
    /\ Number(conns[c].req.id) = Num(1)
    /\ Answered(conns[c].res, 404, ErrorBody("not found"))

----------------------------------------------------------------------------
(* C4: an accepted create appends one sensor with the next id, status     *)
(* INITIALIZING and measurement null, and answers with it; a sensor that  *)
(* is INITIALIZING stays stored and unchanged in every step except the    *)
(* firing of its own activation callback, which makes it ACTIVE and       *)
(* changes nothing else of it; and it is eventually ACTIVE.               *)
C4_CreatedSensorInitializesThenActivates ==
    /\ [][\A c \in Conns :
          HandlerRuns(c, ROUTE_CREATE) /\ conns'[c].res.statusCode = 200
          => \E s \in {sensors'[Len(sensors')]} :
                /\ sensors' = Append(sensors, s)
                /\ s.id = nextId
                /\ s.status = STATUS_INITIALIZING
                /\ s.measurement = null
                /\ Answered(conns'[c].res, 200, s)
         ]_vars
    /\ [][\A i \in 1..Len(sensors) :
             sensors[i].status = STATUS_INITIALIZING
             => \E j \in 1..Len(sensors') :
                   \/ sensors'[j] = sensors[i]
                   \/ /\ sensors'[j] = [sensors[i] EXCEPT !.status = STATUS_ACTIVE]
                      /\ BagIn(Callback(CB_SET_ACTIVE, sensors[i].id), timers)
                      /\ timers' = timers (-) SetToBag({Callback(CB_SET_ACTIVE, sensors[i].id)})
         ]_vars
    /\ \A id \in SensorIds : HasStatus(id, STATUS_INITIALIZING) ~> HasStatus(id, STATUS_ACTIVE)

(* The create of sensor 2 was answered with it, INITIALIZING and          *)
(* unmeasured, and sensor 2 is now ACTIVE                                  *)
C4_Witness ==
    \E c \in Conns :
    /\ LastHandledBy(c, ROUTE_CREATE)
    /\ Answered(conns[c].res, 200, Sensor(2, 2, STATUS_INITIALIZING, null))
    /\ HasStatus(2, STATUS_ACTIVE)

----------------------------------------------------------------------------
(* C5: in reliable mode the gate lets every roll of [0,1) pass, every     *)
(* delivered request leaves its handler with exactly one response sent    *)
(* and its connection intact, and every request waiting in the request    *)
(* delay is eventually delivered.                                          *)
AllRolls == 0..99

C5_ReliableModeAnswersOnce ==
    /\ [](~isUnreliable => \A roll \in AllRolls : randomErrorsGate(roll) = GATE_PASS)
    /\ [][\A c \in Conns :
          ~isUnreliable /\ Delivered(c)
          => /\ conns'[c].gate = GATE_PASS
             /\ Len(conns'[c].res.sent) = 1
             /\ ~conns'[c].res.destroyed
         ]_vars
    /\ \A c \in Conns :
          (~isUnreliable /\ conns[c].phase = PHASE_WAITING)
          ~> (conns[c].phase = PHASE_HANDLED /\ Len(conns[c].res.sent) = 1)

(* In reliable mode an action request was delivered and got its one answer *)
C5_Witness ==
    \E c \in Conns :
    /\ ~isUnreliable
    /\ LastHandledBy(c, ROUTE_CHANGE)
    /\ Len(conns[c].res.sent) = 1

----------------------------------------------------------------------------
(* C6: a scheduler tick changes only sensors that are ACTIVE at the tick, *)
(* either their status to FAILED and nothing else, or their measurement   *)
(* and nothing else; every other sensor, and the membership and order of  *)
(* the registry, are as before.                                           *)
C6_SchedulersTouchOnlyActive ==
    [][TickStep =>
          /\ Len(sensors') = Len(sensors)
          /\ \A i \in 1..Len(sensors) :
                \/ sensors'[i] = sensors[i]
                \/ /\ sensors[i].status = STATUS_ACTIVE
                   /\ \/ sensors'[i] = [sensors[i] EXCEPT !.status = STATUS_FAILED]
                      \/ /\ sensors'[i].measurement # sensors[i].measurement
                         /\ sensors'[i] = [sensors[i] EXCEPT !.measurement = sensors'[i].measurement]
      ]_vars

(* A measured ACTIVE sensor next to a FAILED sensor that never got a measurement *)
C6_Witness ==
    \E i, j \in 1..Len(sensors) :
        /\ sensors[i].status = STATUS_ACTIVE
        /\ sensors[i].measurement # null
        /\ sensors[j].status = STATUS_FAILED
        /\ sensors[j].measurement = null

----------------------------------------------------------------------------
(* C7: a create whose body has no frequency is answered 400 with the      *)
(* error "missing frequency".                                             *)
C7_MissingFrequencyIsReported ==
    \A c \in Conns :
    LastHandledBy(c, ROUTE_CREATE) /\ conns[c].req.frequency = undefined
    => Answered(conns[c].res, 400, ErrorBody("missing frequency"))

----------------------------------------------------------------------------
(* C8: a request for which the gate picks the bad-gateway category gets   *)
(* one response, with status 502.                                         *)
C8_BadGatewayIsAnswered ==
    \A c \in Conns :
    conns[c].gate = GATE_502
    => Len(conns[c].res.sent) = 1 /\ conns[c].res.sent[1].code = 502

----------------------------------------------------------------------------
(* C9: an action request its handler rejects is answered 400 "invalid id" *)
(* when the id is zero or not a number, 404 "not found" when no stored    *)
(* sensor has the id, 400 naming the status when the sensor is neither    *)
(* ACTIVE nor FAILED, 400 "invalid action" when the action is neither     *)
(* restart nor terminate; and whenever the answer is not the              *)
(* acknowledgement, the registry, the id counter and the pending          *)
(* deferred callbacks are as before.                                      *)
C9_RejectedActionChangesNothing ==
    [][\A c \in Conns :
       HandlerRuns(c, ROUTE_CHANGE) =>
          LET sensorId == Number(conns'[c].req.id)
              invalid == sensorId \in {NaN, Num(0)}
              found == ~invalid /\ Stored(sensorId.value)
              eligible == found /\ StatusOf(sensorId.value) \in {STATUS_ACTIVE, STATUS_FAILED}
          IN  /\ invalid => Answered(conns'[c].res, 400, ErrorBody("invalid id"))
              /\ ~invalid /\ ~found => Answered(conns'[c].res, 404, ErrorBody("not found"))
              /\ found /\ ~eligible
                 => Answered(conns'[c].res, 400, StatusErrorBody(StatusOf(sensorId.value)))
              /\ eligible /\ conns'[c].req.action \notin {ACTION_RESTART, ACTION_TERMINATE}
                 => Answered(conns'[c].res, 400, ErrorBody("invalid action"))
              /\ ~Answered(conns'[c].res, 200, [ok |-> TRUE])
                 => UNCHANGED <<sensors, timers, nextId>>
      ]_vars

(* An unknown action on an ACTIVE sensor was refused and the sensor is ACTIVE *)
C9_Witness ==
    \E c \in Conns :
    /\ LastHandledBy(c, ROUTE_CHANGE)
    /\ conns[c].req.action = "reboot"
    /\ Answered(conns[c].res, 400, ErrorBody("invalid action"))
    /\ Number(conns[c].req.id) # NaN
    /\ HasStatus(Number(conns[c].req.id).value, STATUS_ACTIVE)
    /\ timers = EmptyBag

----------------------------------------------------------------------------
(* C10: without --fail-sensors no stored sensor is ever FAILED.           *)
C10_NoFailureUnlessEnabled ==
    ~shouldFailSensors => \A i \in 1..Len(sensors) : sensors[i].status # STATUS_FAILED

(* Without --fail-sensors, both schedulers' ticks have passed over an     *)
(* ACTIVE sensor: it has a measurement and is still ACTIVE                *)
C10_Witness ==
    /\ ~shouldFailSensors
    /\ \E i \in 1..Len(sensors) :
          sensors[i].status = STATUS_ACTIVE /\ sensors[i].measurement # null

----------------------------------------------------------------------------
----------------------------------------------------------------------------
(* The response object holds a response written by a route handler: the   *)
(* handlers of the sensor routes answer with res.json                     *)
HasJsonResponse(res) == \E k \in 1..Len(res.sent) : res.sent[k].type = "json"

(* C12 as stated: whenever a request of any route gets its outcome, it    *)
(* has waited in the request delay and the gate has decided on it, and a  *)
(* response is there only if the gate let it pass or wrote it itself.     *)
C12_EveryRequestIsDelayedThenGated ==
    [][\A c \in Conns :
          conns'[c] # conns[c] /\ conns'[c].phase = PHASE_HANDLED
          => /\ conns[c].phase = PHASE_WAITING
             /\ Len(conns'[c].res.sent) > 0 => conns'[c].gate \in {GATE_PASS, GATE_TEXT}
      ]_vars

(* C12, amended: a request to one of the four sensor routes whose body   *)
(* parses gets its outcome only after it has waited in the request delay, *)
(* with nothing sent meanwhile; the gate then decides, and a handler's    *)
(* response is there only if the gate let the request pass. GET / and     *)
(* GET /debug are answered once, on arrival, with no delay and no gate,   *)
(* and so is a request of any route whose body does not parse (400).      *)
C12_SensorRoutesAreDelayedThenGated ==
    [][\A c \in Conns :
          conns'[c] # conns[c] /\ conns'[c].phase = PHASE_HANDLED
          => IF conns'[c].req.route \in SensorRoutes /\ conns'[c].req.frequency # UnparseableBody
             THEN /\ conns[c] = Waiting
                  /\ conns'[c].gate \in {GATE_HANG, GATE_502, GATE_CLOSE, GATE_TEXT, GATE_PASS}
                  /\ HasJsonResponse(conns'[c].res) => conns'[c].gate = GATE_PASS
                  /\ conns'[c].gate = GATE_PASS => Len(conns'[c].res.sent) = 1
             ELSE /\ conns[c].phase # PHASE_WAITING
                  /\ conns'[c].gate = none
                  /\ Len(conns'[c].res.sent) = 1
                  /\ conns'[c].req.frequency = UnparseableBody
                     => Answered(conns'[c].res, 400, InvalidJsonBody(UnparseableBody))
                  /\ UNCHANGED <<sensors, timers, nextId>>
      ]_vars

(* In unreliable mode a list-ids request waited, passed the gate and was  *)
(* answered by its handler with the id of the one stored sensor           *)
C12_Witness ==
    \E c \in Conns :
    /\ isUnreliable
    /\ LastHandledBy(c, ROUTE_SENSOR_IDS)
    /\ Answered(conns[c].res, 200, [ids |-> <<1>>])

----------------------------------------------------------------------------
(* The ids of a registry, in its order *)
IdsOf(arr) == [i \in 1..Len(arr) |-> arr[i].id]

----------------------------------------------------------------------------
(* Where a sensor id stands in the lifecycle: not handed out yet, stored  *)
(* with a status, or removed                                              *)
LIFECYCLE_NONE == "(none)"
LIFECYCLE_REMOVED == "REMOVED"

LifecycleOf(id) ==
    IF Stored(id) THEN StatusOf(id)
    ELSE IF id < nextId THEN LIFECYCLE_REMOVED
    ELSE LIFECYCLE_NONE

(* This step runs changeSensorRoute for this action on this sensor *)
ActionRuns(action, id) ==
    \E c \in Conns :
        /\ HandlerRuns(c, ROUTE_CHANGE)
        /\ conns'[c].req.action = action
        /\ Number(conns'[c].req.id) = Num(id)

(* C14: whenever the lifecycle position of a sensor id changes in a step, *)
(* the change is a row of the lifecycle table and the step is the trigger *)
(* of that row: (none) to INITIALIZING by a create; INITIALIZING or       *)
(* RESTARTING to ACTIVE by the firing of the sensor's activation          *)
(* callback; ACTIVE to FAILED by a scheduler tick; ACTIVE or FAILED to    *)
(* RESTARTING by a restart, to TERMINATING by a terminate; TERMINATING to *)
(* removed by the firing of the sensor's removal callback.                *)
C14_StatusChangesFollowLifecycle ==
    [][\A id \in SensorIds :
          LET old == LifecycleOf(id)
              new == LifecycleOf(id)'
          IN  old # new =>
                \/ /\ old = LIFECYCLE_NONE
                   /\ new = STATUS_INITIALIZING
                   /\ \E c \in Conns : HandlerRuns(c, ROUTE_CREATE)
                \/ /\ old \in {STATUS_INITIALIZING, STATUS_RESTARTING}
                   /\ new = STATUS_ACTIVE
                   /\ CallbackFires(CB_SET_ACTIVE, id)
                \/ /\ old = STATUS_ACTIVE
                   /\ new = STATUS_FAILED
                   /\ TickStep
                \/ /\ old \in {STATUS_ACTIVE, STATUS_FAILED}
                   /\ new = STATUS_RESTARTING
                   /\ ActionRuns(ACTION_RESTART, id)
                \/ /\ old \in {STATUS_ACTIVE, STATUS_FAILED}
                   /\ new = STATUS_TERMINATING
                   /\ ActionRuns(ACTION_TERMINATE, id)
                \/ /\ old = STATUS_TERMINATING
                   /\ new = LIFECYCLE_REMOVED
                   /\ CallbackFires(CB_SPLICE, id)
      ]_vars

(* The latest request was the acknowledged restart of sensor 1, which has *)
(* since completed its restart and failed again, and sensor 2 has been    *)
(* terminated and removed                                                 *)
C14_Witness ==
    \E c \in Conns :
    /\ LastHandledBy(c, ROUTE_CHANGE)
    /\ conns[c].req.action = ACTION_RESTART
    /\ Number(conns[c].req.id) = Num(1)
    /\ Answered(conns[c].res, 200, [ok |-> TRUE])
    /\ LifecycleOf(1) = STATUS_FAILED
    /\ LifecycleOf(2) = LIFECYCLE_REMOVED

----------------------------------------------------------------------------
(* C15: when a restart is acknowledged, the sensor is RESTARTING and its  *)
(* activation callback is still pending in the state the acknowledgement  *)
(* is sent in; a RESTARTING sensor stays stored and unchanged in every    *)
(* step except the firing of its own activation callback, which makes it  *)
(* ACTIVE and changes nothing else of it; and it is eventually ACTIVE.    *)
C15_RestartAcknowledgedThenCompletes ==
    /\ [][\A c \in Conns, id \in SensorIds :
             /\ HandlerRuns(c, ROUTE_CHANGE)
             /\ conns'[c].req.action = ACTION_RESTART
             /\ Number(conns'[c].req.id) = Num(id)
             /\ Answered(conns'[c].res, 200, [ok |-> TRUE])
             => /\ HasStatus(id, STATUS_RESTARTING)'
                /\ BagIn(Callback(CB_SET_ACTIVE, id), timers')
         ]_vars
    /\ [][\A i \in 1..Len(sensors) :
             sensors[i].status = STATUS_RESTARTING
             => \E j \in 1..Len(sensors') :
                   \/ sensors'[j] = sensors[i]
                   \/ /\ sensors'[j] = [sensors[i] EXCEPT !.status = STATUS_ACTIVE]
                      /\ CallbackFires(CB_SET_ACTIVE, sensors[i].id)
         ]_vars
    /\ \A id \in SensorIds : HasStatus(id, STATUS_RESTARTING) ~> HasStatus(id, STATUS_ACTIVE)

(* The latest request was the acknowledged restart of sensor 1, and       *)
(* sensor 1 is ACTIVE again with no callback pending                      *)
C15_Witness ==
    \E c \in Conns :
    /\ LastHandledBy(c, ROUTE_CHANGE)
    /\ conns[c].req.action = ACTION_RESTART
    /\ Number(conns[c].req.id) = Num(1)
    /\ Answered(conns[c].res, 200, [ok |-> TRUE])
    /\ HasStatus(1, STATUS_ACTIVE)
    /\ Pending(1) = 0

----------------------------------------------------------------------------
(* Cumulative-weight selection: the first category whose cumulative rate  *)
(* lies above the draw                                                    *)
CumulativeChoice(r, h, b, cl, t) ==
    IF r < h THEN GATE_HANG
    ELSE IF r < h + b THEN GATE_502
    ELSE IF r < h + b + cl THEN GATE_CLOSE
    ELSE IF r < h + b + cl + t THEN GATE_TEXT
    ELSE GATE_PASS

(* C16: for every draw of [0,1) the gate picks the outcome cumulative-    *)
(* weight selection picks over the rates in the order hang, bad gateway,  *)
(* abrupt close, malformed body; a delivered request gets exactly that    *)
(* outcome's effect on its response (nothing, status 502, connection      *)
(* destroyed, 500 with the text), and only on pass-through is there a     *)
(* handler's response or a change of the registry, the id counter or the  *)
(* pending callbacks.                                                     *)
C16_GateIsCumulativeSelection ==
    /\ [](\A r \in AllRolls :
             randomErrorsGate(r) =
                CumulativeChoice(r, ERROR_HANG_RATE, ERROR_502_RATE, ERROR_CLOSE_RATE, ERROR_TEXT_ERROR))
    /\ [][\A c \in Conns :
             Delivered(c)
             => \E res \in {conns'[c].res}, gate \in {conns'[c].gate} :
                   /\ gate \in {GATE_HANG, GATE_502, GATE_CLOSE, GATE_TEXT, GATE_PASS}
                   /\ gate = GATE_HANG => res = NewResponse
                   /\ gate = GATE_502 => res = ResStatus(NewResponse, 502)
                   /\ gate = GATE_CLOSE => res = ResDestroy(NewResponse)
                   /\ gate = GATE_TEXT => res = ResSend(ResStatus(NewResponse, 500), ERROR_TEXT_CONTENT)
                   /\ gate # GATE_PASS => ~HasJsonResponse(res) /\ UNCHANGED <<sensors, timers, nextId>>
                   /\ gate = GATE_PASS => HasJsonResponse(res)
         ]_vars

(* In unreliable mode the gate closed the connection of a request *)
C16_Witness ==
    \E c \in Conns :
    /\ isUnreliable
    /\ conns[c].phase = PHASE_HANDLED
    /\ conns[c].gate = GATE_CLOSE
    /\ conns[c].res = ResDestroy(NewResponse)

----------------------------------------------------------------------------
(* C17: when the gate picks a fault for a delivered request, the          *)
(* registry (membership, order and every field of every sensor), the id   *)
(* counter and the pending callbacks are as before and no handler has     *)
(* answered; a request picked for hang has no response, no status and an  *)
(* intact connection, and its record stays so until the next request of   *)
(* its connection arrives.                                                *)
C17_FaultedRequestNeverReachesHandler ==
    /\ [][\A c \in Conns :
             Delivered(c) /\ conns'[c].gate # GATE_PASS
             => /\ UNCHANGED <<sensors, timers, nextId>>
                /\ ~HasJsonResponse(conns'[c].res)
         ]_vars
    /\ [](\A c \in Conns :
             conns[c].phase = PHASE_HANDLED /\ conns[c].gate = GATE_HANG
             => conns[c].res = NewResponse)
    /\ [][\A c \in Conns :
             conns[c].phase = PHASE_HANDLED /\ conns[c].gate = GATE_HANG
             => \/ conns'[c] = conns[c]
                \/ conns'[c] = Waiting
                \/ conns'[c].phase = PHASE_HANDLED /\ conns'[c].gate = none
         ]_vars

(* In unreliable mode a well-formed create was picked for hang: one       *)
(* sensor is stored as before, the counter stands at 2 and the request    *)
(* has no response                                                        *)
C17_Witness ==
    \E c \in Conns :
    /\ isUnreliable
    /\ conns[c].phase = PHASE_HANDLED
    /\ conns[c].gate = GATE_HANG
    /\ conns[c].req.route = ROUTE_CREATE
    /\ conns[c].req.frequency = "2"
    /\ conns[c].res = NewResponse
    /\ Len(sensors) = 1
    /\ nextId = 2

----------------------------------------------------------------------------
(* C18: a create that reaches its handler with a frequency that is absent *)
(* or not an integer is answered 400 and leaves the registry, the id      *)
(* counter and the pending callbacks as they were; with the integer 2 or  *)
(* 7 it appends exactly one sensor, with the next id and that frequency,  *)
(* and moves the counter by one; and in every step every stored sensor    *)
(* either stays stored with the id and the frequency it has or is removed *)
(* by the firing of its own removal callback.                             *)
C18_RejectedCreateStoresNothing ==
    /\ [][\A c \in Conns :
             HandlerRuns(c, ROUTE_CREATE)
             => \E f \in {conns'[c].req.frequency}, res \in {conns'[c].res} :
                   IF f \in {"2", "7"}
                   THEN \E s \in {sensors'[Len(sensors')]} :
                           /\ sensors' = Append(sensors, s)
                           /\ s.id = nextId
                           /\ f = "2" => s.frequency = 2
                           /\ f = "7" => s.frequency = 7
                           /\ nextId' = nextId + 1
                           /\ Answered(res, 200, s)
                   ELSE /\ Len(res.sent) = 1
                        /\ res.sent[1].code = 400
                        /\ res.sent[1].type = "json"
                        /\ UNCHANGED <<sensors, timers, nextId>>
         ]_vars
    /\ [][\A i \in 1..Len(sensors) :
             \/ \E j \in 1..Len(sensors') :
                    /\ sensors'[j].id = sensors[i].id
                    /\ sensors'[j].frequency = sensors[i].frequency
             \/ CallbackFires(CB_SPLICE, sensors[i].id)
         ]_vars

(* A create with frequency 2.5 was refused after sensor 1 had been        *)
(* created with frequency 7: sensor 1 is the only one and the counter     *)
(* stands at 2                                                            *)
C18_Witness ==
    \E c \in Conns :
    /\ LastHandledBy(c, ROUTE_CREATE)
    /\ conns[c].req.frequency = "2.5"
    /\ Answered(conns[c].res, 400, ErrorBody("invalid frequency"))
    /\ Len(sensors) = 1
    /\ sensors[1].id = 1
    /\ sensors[1].frequency = 7
    /\ nextId = 2

----------------------------------------------------------------------------
(* C19: every sensor id has at most one deferred callback pending, and    *)
(* has one exactly when the sensor is stored and INITIALIZING, RESTARTING *)
(* or TERMINATING; while one is pending the sensor's lifecycle position   *)
(* changes only by the firing of that callback; and an action on a sensor *)
(* is acknowledged only when none is pending for it and leaves exactly    *)
(* one pending, so that of the requests racing on a sensor at most one is *)
(* acknowledged before the next firing.                                   *)
C19_OnePendingCompletionPerSensor ==
    /\ [](\A id \in SensorIds :
             /\ Pending(id) <= 1
             /\ Pending(id) = 1
                <=> /\ Stored(id)
                    /\ StatusOf(id) \in {STATUS_INITIALIZING, STATUS_RESTARTING, STATUS_TERMINATING})
    /\ [][\A id \in SensorIds :
             Pending(id) > 0 /\ LifecycleOf(id)' # LifecycleOf(id)
             => CallbackFires(CB_SET_ACTIVE, id) \/ CallbackFires(CB_SPLICE, id)
         ]_vars
    /\ [][\A c \in DOMAIN conns, id \in SensorIds :
             /\ HandlerRuns(c, ROUTE_CHANGE)
             /\ Number(conns'[c].req.id) = Num(id)
             => IF Answered(conns'[c].res, 200, [ok |-> TRUE])
                THEN Pending(id) = 0 /\ Pending(id)' = 1
                ELSE UNCHANGED <<sensors, timers, nextId>>
         ]_vars

(* Two requests raced on sensor 1: the restart on one connection was      *)
(* acknowledged, the terminate on another was refused naming RESTARTING,  *)
(* and the one activation callback of sensor 1 is still pending           *)
C19_Witness ==
    \E c, d \in DOMAIN conns :
    /\ c # d
    /\ LastHandledBy(c, ROUTE_CHANGE)
    /\ conns[c].req.action = ACTION_RESTART
    /\ Number(conns[c].req.id) = Num(1)
    /\ Answered(conns[c].res, 200, [ok |-> TRUE])
    /\ LastHandledBy(d, ROUTE_CHANGE)
    /\ conns[d].req.action = ACTION_TERMINATE
    /\ Number(conns[d].req.id) = Num(1)
    /\ Answered(conns[d].res, 400, StatusErrorBody(STATUS_RESTARTING))
    /\ HasStatus(1, STATUS_RESTARTING)
    /\ Pending(1) = 1

----------------------------------------------------------------------------
(* The registry without the sensor of this id *)
Without(arr, id) == SelectSeq(arr, LAMBDA s : s.id # id)

(* C20: a sensor whose removal callback is pending is stored, and the     *)
(* firing of the callback leaves the registry as it was with exactly that *)
(* sensor deleted: one sensor fewer, every other sensor in its place      *)
(* relative to the others and with all its fields as before.              *)
C20_CompletionRemovesExactlyItsSensor ==
    /\ [](\A id \in SensorIds : BagIn(Callback(CB_SPLICE, id), timers) => Stored(id))
    /\ [][\A id \in SensorIds :
             CallbackFires(CB_SPLICE, id)
             => /\ Stored(id)
                /\ sensors' = Without(sensors, id)
                /\ Len(sensors') = Len(sensors) - 1
         ]_vars

(* Sensor 1 was terminated and removed while sensor 2, the last of the    *)
(* registry, stayed: it is ACTIVE with the measurement it had             *)
C20_Witness ==
    /\ nextId = 3
    /\ ~Stored(1)
    /\ IdsOf(sensors) = <<2>>
    /\ sensors[1].status = STATUS_ACTIVE
    /\ sensors[1].measurement # null
    /\ timers = EmptyBag

====
